---------------------------- MODULE Spec2Model ----------------------------
(***************************************************************************)
(* Model of scripts/run_all_mcdviral_ntu.py: the folder selector           *)
(* (find_dirs), the start-up validation and batch loop of main, and the    *)
(* child-process lifecycle of run_roslaunch_for_folder, with operator      *)
(* interrupts (KeyboardInterrupt) arriving at any statement boundary.      *)
(*                                                                         *)
(* Granularity: one action per statement (or per blocking call) of the     *)
(* driver, so that an interrupt can fall between any two of them.  The     *)
(* child is a separate process: it exits on its own at any time            *)
(* (ChildExit); the driver only learns of the exit through poll()/wait(),  *)
(* which also reap it.                                                     *)
(***************************************************************************)
EXTENDS Integers, Sequences, FiniteSets

(***************************************************************************)
(* Bounds                                                                  *)
(***************************************************************************)
\* most operator interrupts in one run
MaxInterrupts == 2
\* most matching names under the root, for the folder selector on its own
MaxEntries == 3

(***************************************************************************)
(* The file system under --root, as find_dirs sees it.  An entry is a      *)
(* name matching ntu_day_* or ntu_night_* (kind, suffix), directly under   *)
(* the root (up = FALSE) or under unpublished_sequences (up = TRUE); dir   *)
(* is what is_dir() answers for it and rp identifies its resolve()d path.  *)
(***************************************************************************)
E(up, kind, suffix, dir, rp) ==
    [up |-> up, kind |-> kind, suffix |-> suffix, dir |-> dir, rp |-> rp]

\* the example of the specification: ntu_day_01, ntu_night_01,
\* unpublished_sequences/ntu_day_02
ExampleRoot ==
    [upIsDir |-> TRUE,
     entries |-> {E(FALSE, "day", <<0, 1>>, TRUE, 1),
                  E(FALSE, "night", <<0, 1>>, TRUE, 2),
                  E(TRUE, "day", <<0, 2>>, TRUE, 3)}]

\* a root with no matching subfolder
EmptyRoot == [upIsDir |-> FALSE, entries |-> {}]

\* a stray file ntu_day_01, a directory ntu_day_02, and
\* unpublished_sequences/ntu_day_03 a symlink to ntu_day_02
StrayRoot ==
    [upIsDir |-> TRUE,
     entries |-> {E(FALSE, "day", <<0, 1>>, FALSE, 1),
                  E(FALSE, "day", <<0, 2>>, TRUE, 2),
                  E(TRUE, "day", <<0, 3>>, TRUE, 2)}]

Roots == {ExampleRoot, EmptyRoot, StrayRoot}

\* the names a root may hold: ntu_<kind>_10 and ntu_<kind>_2, under the root
\* or under unpublished_sequences
Names == [up : BOOLEAN, kind : {"day", "night"}, suffix : {<<1, 0>>, <<2>>}]

\* what a name is: 0 a plain file, else the directory (one of three) it is
\* or links to
Targets == {0, 1, 2, 3}

\* every root of at most MaxEntries names; names exist under
\* unpublished_sequences only when that is a directory
SelRoots ==
    UNION {UNION {{[upIsDir |-> u,
                    entries |-> {E(n.up, n.kind, n.suffix, t[n] # 0, t[n]) : n \in N}]
                   : u \in {b \in BOOLEAN : b \/ \A n \in N : ~n.up}}
                  : t \in [N -> Targets]}
           : N \in {M \in SUBSET Names : Cardinality(M) <= MaxEntries}}

(***************************************************************************)
(* find_dirs                                                               *)
(***************************************************************************)
want_day(only) == only \in {"all", "day"}
\* a night filter that --only day does not switch off
want_night_always(only) == TRUE

want_night(only) == only \in {"all", "night"}

\* lexicographic order of two suffixes (sequences of digits), as sorted()
\* orders two names with a common prefix
RECURSIVE LexLess(_, _)
LexLess(a, b) ==
    IF a = <<>> THEN b # <<>>
    ELSE IF b = <<>> THEN FALSE
    ELSE IF Head(a) # Head(b) THEN Head(a) < Head(b)
    ELSE LexLess(Tail(a), Tail(b))

\* root.glob("ntu_<kind>_*") or up.glob("ntu_<kind>_*")
glob(fs, up, kind) == {e \in fs.entries : e.up = up /\ e.kind = kind}

\* sorted(...) of one glob group
RECURSIVE sorted(_)
sorted(S) ==
    IF S = {} THEN <<>>
    ELSE LET m == CHOOSE x \in S : \A y \in S \ {x} : LexLess(x.suffix, y.suffix)
         IN <<m>> \o sorted(S \ {m})

\* the groups with night ahead of day
Collect_night_first(fs, only, include_published, include_unpublished) ==
    (IF include_published /\ want_night(only)
        THEN sorted(glob(fs, FALSE, "night")) ELSE <<>>)
 \o (IF include_published /\ want_day(only)
        THEN sorted(glob(fs, FALSE, "day")) ELSE <<>>)
 \o (IF include_unpublished /\ fs.upIsDir /\ want_night(only)
        THEN sorted(glob(fs, TRUE, "night")) ELSE <<>>)
 \o (IF include_unpublished /\ fs.upIsDir /\ want_day(only)
        THEN sorted(glob(fs, TRUE, "day")) ELSE <<>>)

\* lines 41-55: the concatenation of the requested groups
Collect(fs, only, include_published, include_unpublished) ==
    (IF include_published /\ want_day(only)
        THEN sorted(glob(fs, FALSE, "day")) ELSE <<>>)
 \o (IF include_published /\ want_night(only)
        THEN sorted(glob(fs, FALSE, "night")) ELSE <<>>)
 \o (IF include_unpublished /\ fs.upIsDir /\ want_day(only)
        THEN sorted(glob(fs, TRUE, "day")) ELSE <<>>)
 \o (IF include_unpublished /\ fs.upIsDir /\ want_night(only)
        THEN sorted(glob(fs, TRUE, "night")) ELSE <<>>)

\* a selector that keeps every directory, seen before or not
KeepDirs_every_dir(dirs, out, seen) ==
    out \o SelectSeq(dirs, LAMBDA d : d.dir)

\* lines 57-67: keep directories only, first occurrence of each resolved path
RECURSIVE KeepDirs(_, _, _)
KeepDirs(dirs, out, seen) ==
    IF dirs = <<>> THEN out
    ELSE LET d == Head(dirs)
         IN IF ~d.dir THEN KeepDirs(Tail(dirs), out, seen)
            ELSE IF d.rp \notin seen
                 THEN KeepDirs(Tail(dirs), Append(out, d), seen \cup {d.rp})
                 ELSE KeepDirs(Tail(dirs), out, seen)

find_dirs(fs, only, include_published, include_unpublished) ==
    KeepDirs(Collect(fs, only, include_published, include_unpublished), <<>>, {})

\* both flags cancelling the published source
include_published_cancel(published_only, unpublished_only) ==
    ~unpublished_only

\* an unpublished source that --published-only does not switch off
include_unpublished_always(published_only, unpublished_only) == TRUE

\* lines 154-166
include_published(published_only, unpublished_only) ==
    IF published_only /\ unpublished_only THEN TRUE
    ELSE IF published_only THEN TRUE
    ELSE IF unpublished_only THEN FALSE
    ELSE TRUE

include_unpublished(published_only, unpublished_only) ==
    IF published_only /\ unpublished_only THEN TRUE
    ELSE IF published_only THEN FALSE
    ELSE IF unpublished_only THEN TRUE
    ELSE TRUE

(***************************************************************************)
(* Program state                                                           *)
(***************************************************************************)
VARIABLES
    fsys,       \* what the start-up checks see: root_is_dir, launch_is_file, root
    cli,        \* parsed arguments: only, published_only, unpublished_only,
                \* sleep_after, no_autorun, launch, and the unknown ones (extra)
    pc,         \* position of the (single) control thread
    ntu_dirs,   \* main: the selected folders
    idx,        \* main: enumerate() index of the folder being run (0 before the loop)
    proc,       \* run_roslaunch_for_folder: 0 is None, else the child of folder proc
    rc,         \* run_roslaunch_for_folder: value returned by proc.wait()
    pending,    \* exception being carried through the finally block
    child,      \* per folder: the child process (st, code, sigs)
    hist,       \* per folder: what has been observed of its run
    attempts,   \* folders for which Popen was called, in call order
    args,       \* run_roslaunch_for_folder: the argument list built for Popen
    cmds,       \* the argument lists Popen was called with, in call order
    kbd,        \* operator interrupts delivered so far
    exit_code   \* exit status: of sys.exit, 0 on normal completion, 1 after an
                \* uncaught error, -1 while running or ended by KeyboardInterrupt

vars == <<fsys, cli, pc, ntu_dirs, idx, proc, rc, pending, child, hist,
          attempts, args, cmds, kbd, exit_code>>

inputs == <<fsys, cli>>

NoChild == [st |-> "none", code |-> -1, sigs |-> <<>>]

NoHist == [outcome |-> "NotStarted", passed |-> FALSE, slept |-> FALSE,
           intrBlocked |-> FALSE, intrRunning |-> FALSE]

\* positions inside the try body (lines 94-98)
TryBody == {"popen", "wait", "check_rc"}
\* positions inside an except clause (lines 99-111)
Handlers == {"kbd_handler", "kbd_sigint", "kbd_wait", "kbd_kill", "kbd_raise",
             "except_cpe", "except_exc"}
\* positions inside the finally clause (lines 112-118)
Finally == {"finally", "fin_term", "fin_wait", "fin_kill"}
\* positions of main and of run_roslaunch_for_folder outside the try statement
Outside == {"validate_root", "validate_launch", "select", "loop", "build", "sleep"}
\* the process has ended
Terminal == {"exit", "done", "aborted"}

\* --sleep-after as typed: no pause, the default, and a duration beyond
\* what time.sleep accepts
SleepAfter == {"0", "10.0", "1e20"}

\* one element of an argument list: literal text, or text around the
\* string of a folder's path
Tok(s) == [pre |-> s, folder |-> <<>>, post |-> ""]

\* line 31
DEFAULT_LAUNCH == "/home/dat/slict_ws/src/FAST_LIO/launch/run_mcdviral.launch"

\* what parse_known_args leaves over: nothing, or two arguments for the tool
ExtraArgs == {<<>>, <<Tok("rviz:=false"), Tok("--screen")>>}

Init ==
    /\ fsys \in [root_is_dir : BOOLEAN, launch_is_file : BOOLEAN, root : Roots]
    /\ cli \in [only : {"all", "day", "night"}, published_only : BOOLEAN,
                unpublished_only : BOOLEAN, sleep_after : SleepAfter,
                no_autorun : BOOLEAN, extra : ExtraArgs, launch : {DEFAULT_LAUNCH}]
    /\ pc = "validate_root"
    /\ ntu_dirs = <<>>
    /\ idx = 0
    /\ proc = 0
    /\ rc = -1
    /\ pending = "None"
    /\ child = <<>>
    /\ hist = <<>>
    /\ attempts = <<>>
    /\ args = <<>>
    /\ cmds = <<>>
    /\ kbd = 0
    /\ exit_code = -1

(***************************************************************************)
(* subprocess.Popen, as the driver uses it                                 *)
(***************************************************************************)
\* proc.poll(): collects the exit status of a child that has exited
poll(c) == IF c.st = "exited" THEN [c EXCEPT !.st = "reaped"] ELSE c

\* a poll that never reports the exit
is_running_always(c) == TRUE

\* "proc.poll() is None"
is_running(c) == c.st = "running"

\* a send that is forceful whatever signal is asked for
send_signal_forceful(c, sig) ==
    IF c.st = "running" THEN [c EXCEPT !.sigs = Append(@, "SIGKILL")] ELSE poll(c)

\* proc.send_signal(sig): polls first and signals only a child not yet
\* known to have exited
send_signal(c, sig) ==
    IF c.st = "running" THEN [c EXCEPT !.sigs = Append(@, sig)] ELSE poll(c)

\* mutant: the bounded waits have no timeout
may_time_out_never(c) == FALSE

\* a bounded proc.wait(timeout=...) can raise TimeoutExpired: the child is
\* still running; a child that has been sent SIGKILL exits within any
\* grace period
may_time_out(c) == c.st = "running" /\ \A k \in 1..Len(c.sigs) : c.sigs[k] # "SIGKILL"

\* mutant: the child is polled instead of waited for
may_return_at_once(c) == TRUE

\* wait() returns: the child has exited (its status is collected by this
\* call or was collected before)
may_return(c) == c.st \in {"exited", "reaped"}

(***************************************************************************)
(* main: start-up validation and folder selection (lines 144-172)          *)
(***************************************************************************)
Halt(code) ==
    /\ pc' = "exit"
    /\ exit_code' = code

\* mutant: the root is not checked
CheckRoot_unchecked ==
    /\ pc = "validate_root"
    /\ pc' = "validate_launch"
    /\ UNCHANGED <<inputs, args, cmds, ntu_dirs, idx, proc, rc, pending, child, hist, attempts, kbd,
                   exit_code>>

CheckRoot ==
    /\ pc = "validate_root"
    /\ IF ~fsys.root_is_dir THEN Halt(2)
       ELSE pc' = "validate_launch" /\ UNCHANGED exit_code
    /\ UNCHANGED <<inputs, args, cmds, ntu_dirs, idx, proc, rc, pending, child, hist, attempts, kbd>>

CheckLaunch ==
    /\ pc = "validate_launch"
    /\ IF ~fsys.launch_is_file THEN Halt(3)
       ELSE pc' = "select" /\ UNCHANGED exit_code
    /\ UNCHANGED <<inputs, args, cmds, ntu_dirs, idx, proc, rc, pending, child, hist, attempts, kbd>>

SelectFolders ==
    /\ pc = "select"
    /\ LET dirs == find_dirs(fsys.root, cli.only,
                       include_published(cli.published_only, cli.unpublished_only),
                       include_unpublished(cli.published_only, cli.unpublished_only))
       IN /\ ntu_dirs' = dirs
          /\ child' = [i \in 1..Len(dirs) |-> NoChild]
          /\ hist' = [i \in 1..Len(dirs) |-> NoHist]
          /\ IF dirs = <<>> THEN Halt(4)
             ELSE pc' = "loop" /\ UNCHANGED exit_code
    /\ UNCHANGED <<inputs, args, cmds, idx, proc, rc, pending, attempts, kbd>>

(***************************************************************************)
(* main: the batch loop (lines 181-191)                                    *)
(***************************************************************************)
\* the index of the folder the loop takes after folder i
next_index(i) == i + 1

LoopNext ==
    /\ pc = "loop"
    /\ IF next_index(idx) <= Len(ntu_dirs)
       THEN /\ idx' = next_index(idx)
            /\ pc' = "build"
            /\ UNCHANGED exit_code
       ELSE /\ pc' = "done"
            /\ exit_code' = 0
            /\ UNCHANGED idx
    /\ UNCHANGED <<inputs, args, cmds, ntu_dirs, proc, rc, pending, child, hist, attempts, kbd>>

(***************************************************************************)
(* run_roslaunch_for_folder (lines 69-122)                                 *)
(***************************************************************************)
SetChild(i, c) == child' = [child EXCEPT ![i] = c]

SetOutcome(i, o) == hist' = [hist EXCEPT ![i].outcome = o]

\* the except clause of lines 99-111 that takes an exception raised in the
\* try body
handler_of(exc) ==
    IF exc = "KeyboardInterrupt" THEN "kbd_handler"
    ELSE IF exc = "CalledProcessError" THEN "except_cpe"
    ELSE "except_exc"

\* mutant: the interrupt handler does not re-raise
raised_after_swallowing(handler) == "None"

\* what is in flight when an except clause is left: the bare raise of line
\* 107 re-raises, the clauses of lines 108-111 end the exception
raised_after(handler) ==
    IF handler = "kbd_handler" THEN "KeyboardInterrupt" ELSE "None"

\* mutant: the pause is skipped
after_finally_no_pause(exc) == IF exc # "None" THEN "aborted" ELSE "loop"

\* where control goes when the finally clause is done: an exception in
\* flight leaves the function and, uncaught in main, the program; otherwise
\* the statement after the try (line 120)
after_finally(exc) == IF exc # "None" THEN "aborted" ELSE "sleep"

\* line 76: f"bag_file:={str(folder)}/" + "*.bag"
bag_arg(folder) == [pre |-> "bag_file:=", folder |-> <<folder>>, post |-> "/*.bag"]

\* a command line whose autorun follows --no_autorun the wrong way round
autorun_inverted(no_autorun) == no_autorun

\* line 178
autorun(no_autorun) == ~no_autorun

\* lines 78-85
build_args(launch_file, folder, autorun_, extra_args) ==
    <<Tok("roslaunch"),
      Tok(launch_file),
      bag_arg(folder),
      Tok(IF autorun_ THEN "autorun:=true" ELSE "autorun:=false")>>
    \o (IF extra_args # <<>> THEN extra_args ELSE <<>>)

\* lines 74-92: the command line is built, proc = None
BuildCmd ==
    /\ pc = "build"
    /\ proc' = 0
    /\ rc' = -1
    /\ pending' = "None"
    /\ args' = build_args(cli.launch, ntu_dirs[idx], autorun(cli.no_autorun), cli.extra)
    /\ pc' = "popen"
    /\ UNCHANGED <<inputs, cmds, ntu_dirs, idx, child, hist, attempts, kbd, exit_code>>

\* line 94: the child is started and bound to proc
PopenOk ==
    /\ pc = "popen"
    /\ attempts' = Append(attempts, ntu_dirs[idx])
    /\ SetChild(idx, [st |-> "running", code |-> -1, sigs |-> <<>>])
    /\ SetOutcome(idx, "Running")
    /\ proc' = idx
    /\ cmds' = Append(cmds, args)
    /\ pc' = "wait"
    /\ UNCHANGED <<inputs, args, ntu_dirs, idx, rc, pending, kbd, exit_code>>

\* line 94: Popen raises OSError (the tool cannot be executed); proc stays None
PopenFails ==
    /\ pc = "popen"
    /\ attempts' = Append(attempts, ntu_dirs[idx])
    /\ cmds' = Append(cmds, args)
    /\ pc' = handler_of("OSError")
    /\ UNCHANGED <<inputs, args, ntu_dirs, idx, proc, rc, pending, child, hist, kbd,
                   exit_code>>

\* line 95: the unbounded wait returns once the child has exited
Wait ==
    /\ pc = "wait"
    /\ may_return(child[proc])
    /\ rc' = child[proc].code
    /\ SetChild(proc, poll(child[proc]))
    /\ pc' = "check_rc"
    /\ UNCHANGED <<inputs, args, cmds, ntu_dirs, idx, proc, pending, hist, attempts, kbd,
                   exit_code>>

\* lines 96-98
CheckRc ==
    /\ pc = "check_rc"
    /\ IF rc # 0
       THEN /\ pc' = handler_of("CalledProcessError")
            /\ UNCHANGED hist
       ELSE /\ SetOutcome(idx, "Succeeded")
            /\ pc' = "finally"
    /\ UNCHANGED <<inputs, args, cmds, ntu_dirs, idx, proc, rc, pending, child, attempts, kbd,
                   exit_code>>

\* lines 108-109
ExceptCalledProcessError ==
    /\ pc = "except_cpe"
    /\ SetOutcome(idx, "Failed")
    /\ pending' = raised_after("except_cpe")
    /\ pc' = "finally"
    /\ UNCHANGED <<inputs, args, cmds, ntu_dirs, idx, proc, rc, child, attempts, kbd, exit_code>>

\* lines 110-111
ExceptException ==
    /\ pc = "except_exc"
    /\ SetOutcome(idx, "Error")
    /\ pending' = raised_after("except_exc")
    /\ pc' = "finally"
    /\ UNCHANGED <<inputs, args, cmds, ntu_dirs, idx, proc, rc, child, attempts, kbd, exit_code>>

\* lines 99-101: "if proc and proc.poll() is None"
KbdHandler ==
    /\ pc = "kbd_handler"
    /\ SetOutcome(idx, "Interrupted")
    /\ IF proc # 0 /\ is_running(poll(child[proc]))
       THEN /\ pc' = "kbd_sigint"
            /\ UNCHANGED child
       ELSE /\ pc' = "kbd_raise"
            /\ IF proc # 0 THEN SetChild(proc, poll(child[proc])) ELSE UNCHANGED child
    /\ UNCHANGED <<inputs, args, cmds, ntu_dirs, idx, proc, rc, pending, attempts, kbd, exit_code>>

\* line 102
KbdSigint ==
    /\ pc = "kbd_sigint"
    /\ SetChild(proc, send_signal(child[proc], "SIGINT"))
    /\ pc' = "kbd_wait"
    /\ UNCHANGED <<inputs, args, cmds, ntu_dirs, idx, proc, rc, pending, hist, attempts, kbd,
                   exit_code>>

\* lines 103-105: proc.wait(timeout=20); TimeoutExpired is an Exception
KbdWait ==
    /\ pc = "kbd_wait"
    /\ \/ /\ may_return(child[proc])
          /\ SetChild(proc, poll(child[proc]))
          /\ pc' = "kbd_raise"
       \/ /\ may_time_out(child[proc])
          /\ pc' = "kbd_kill"
          /\ UNCHANGED child
    /\ UNCHANGED <<inputs, args, cmds, ntu_dirs, idx, proc, rc, pending, hist, attempts, kbd,
                   exit_code>>

\* line 106
KbdKill ==
    /\ pc = "kbd_kill"
    /\ SetChild(proc, send_signal(child[proc], "SIGKILL"))
    /\ pc' = "kbd_raise"
    /\ UNCHANGED <<inputs, args, cmds, ntu_dirs, idx, proc, rc, pending, hist, attempts, kbd,
                   exit_code>>

\* line 107
KbdRaise ==
    /\ pc = "kbd_raise"
    /\ pending' = raised_after("kbd_handler")
    /\ pc' = "finally"
    /\ UNCHANGED <<inputs, args, cmds, ntu_dirs, idx, proc, rc, child, hist, attempts, kbd,
                   exit_code>>

\* lines 112-113: "if proc and proc.poll() is None"
FinallyPoll ==
    /\ pc = "finally"
    /\ IF proc # 0 /\ is_running(poll(child[proc]))
       THEN /\ pc' = "fin_term"
            /\ UNCHANGED child
       ELSE /\ pc' = after_finally(pending)
            /\ IF proc # 0 THEN SetChild(proc, poll(child[proc])) ELSE UNCHANGED child
    /\ UNCHANGED <<inputs, args, cmds, ntu_dirs, idx, proc, rc, pending, hist, attempts, kbd,
                   exit_code>>

\* line 114
FinallyTerminate ==
    /\ pc = "fin_term"
    /\ SetChild(proc, send_signal(child[proc], "SIGTERM"))
    /\ pc' = "fin_wait"
    /\ UNCHANGED <<inputs, args, cmds, ntu_dirs, idx, proc, rc, pending, hist, attempts, kbd,
                   exit_code>>

\* lines 115-117: proc.wait(timeout=10)
FinallyWait ==
    /\ pc = "fin_wait"
    /\ \/ /\ may_return(child[proc])
          /\ SetChild(proc, poll(child[proc]))
          /\ pc' = after_finally(pending)
       \/ /\ may_time_out(child[proc])
          /\ pc' = "fin_kill"
          /\ UNCHANGED child
    /\ UNCHANGED <<inputs, args, cmds, ntu_dirs, idx, proc, rc, pending, hist, attempts, kbd,
                   exit_code>>

\* line 118: the last statement of the finally clause
FinallyKill ==
    /\ pc = "fin_kill"
    /\ SetChild(proc, send_signal(child[proc], "SIGKILL"))
    /\ pc' = after_finally(pending)
    /\ UNCHANGED <<inputs, args, cmds, ntu_dirs, idx, proc, rc, pending, hist, attempts, kbd,
                   exit_code>>

\* line 120: "sleep_after > 0" of the parsed float
is_positive(s) == s # "0"

\* line 122: time.sleep raises OverflowError for a duration that does not
\* fit the platform's time_t
sleep_raises(s) == s = "1e20"

\* lines 120-122: the post-run pause, then back to the loop of main.  The
\* pause is outside the try statement: an exception of time.sleep leaves
\* the function and, uncaught in main, ends the program with status 1.
Sleep ==
    /\ pc = "sleep"
    /\ IF is_positive(cli.sleep_after) /\ sleep_raises(cli.sleep_after)
       THEN /\ pc' = "aborted"
            /\ exit_code' = 1
            /\ hist' = [hist EXCEPT ![idx].passed = TRUE]
       ELSE /\ pc' = "loop"
            /\ UNCHANGED exit_code
            /\ hist' = [hist EXCEPT ![idx].passed = TRUE,
                                    ![idx].slept = is_positive(cli.sleep_after)]
    /\ UNCHANGED <<inputs, args, cmds, ntu_dirs, idx, proc, rc, pending, child, attempts, kbd>>

(***************************************************************************)
(* The environment: the child process and the operator                     *)
(***************************************************************************)
killed(c) == \E k \in 1..Len(c.sigs) : c.sigs[k] = "SIGKILL"

\* the child exits, by itself or because of a signal; 1 stands for any
\* non-zero exit code, a killed child reports -9
ChildExit(i) ==
    /\ child[i].st = "running"
    /\ \E code \in {0, 1} :
          SetChild(i, [child[i] EXCEPT !.st = "exited",
                                       !.code = IF killed(child[i]) THEN -9 ELSE code])
    /\ UNCHANGED <<inputs, args, cmds, pc, ntu_dirs, idx, proc, rc, pending, hist, attempts, kbd,
                   exit_code>>

\* an interrupt that is lost outside the try statement
on_interrupt_lost_outside(p) ==
    IF p \in TryBody THEN handler_of("KeyboardInterrupt")
    ELSE IF p \in Handlers THEN "finally"
    ELSE p

\* where a KeyboardInterrupt raised at position p takes control: to the
\* except clause of line 99 from the try body, through the finally clause
\* from an except clause (the nested "except Exception" does not catch it),
\* and out of the function and of main from anywhere else
on_interrupt(p) ==
    IF p \in TryBody THEN handler_of("KeyboardInterrupt")
    ELSE IF p \in Handlers THEN "finally"
    ELSE "aborted"

NoteInterrupt ==
    IF idx >= 1 /\ child[idx].st = "running"
    THEN hist' = [hist EXCEPT ![idx].intrRunning = TRUE,
                              ![idx].intrBlocked = @ \/ (pc = "wait")]
    ELSE UNCHANGED hist

\* the operator's Ctrl+C: KeyboardInterrupt is raised in the control thread
\* at its current position
Interrupt ==
    /\ pc \notin Terminal
    /\ kbd < MaxInterrupts
    /\ kbd' = kbd + 1
    /\ pc' = on_interrupt(pc)
    /\ pending' = IF pc \in Handlers THEN "KeyboardInterrupt" ELSE pending
    /\ NoteInterrupt
    /\ UNCHANGED <<inputs, args, cmds, ntu_dirs, idx, proc, rc, child, attempts, exit_code>>

\* Ctrl+C when Popen of line 94 has returned and its result is not yet
\* stored in proc: the child runs, proc is still None
InterruptPopen ==
    /\ pc = "popen"
    /\ kbd < MaxInterrupts
    /\ kbd' = kbd + 1
    /\ attempts' = Append(attempts, ntu_dirs[idx])
    /\ SetChild(idx, [st |-> "running", code |-> -1, sigs |-> <<>>])
    /\ hist' = [hist EXCEPT ![idx].outcome = "Running", ![idx].intrRunning = TRUE]
    /\ cmds' = Append(cmds, args)
    /\ pc' = on_interrupt(pc)
    /\ UNCHANGED <<inputs, args, ntu_dirs, idx, proc, rc, pending, exit_code>>

(***************************************************************************)
(* Specification                                                           *)
(***************************************************************************)
Driver ==
    \/ CheckRoot \/ CheckLaunch \/ SelectFolders \/ LoopNext
    \/ BuildCmd \/ PopenOk \/ PopenFails \/ Wait \/ CheckRc
    \/ ExceptCalledProcessError \/ ExceptException
    \/ KbdHandler \/ KbdSigint \/ KbdWait \/ KbdKill \/ KbdRaise
    \/ FinallyPoll \/ FinallyTerminate \/ FinallyWait \/ FinallyKill
    \/ Sleep

KilledChildExit == \E i \in 1..Len(child) : killed(child[i]) /\ ChildExit(i)

Next ==
    \/ Driver
    \/ \E i \in 1..Len(child) : ChildExit(i)
    \/ Interrupt
    \/ InterruptPopen

Spec == Init /\ [][Next]_vars

\* the control thread runs whenever it can, and a child that was sent
\* SIGKILL exits
FairSpec == Spec /\ WF_vars(Driver) /\ WF_vars(KilledChildExit)

\* the folder selector on its own: main at line 154, start-up checks
\* passed, for every root of SelRoots and every filter
SelInit ==
    /\ fsys \in [root_is_dir : {TRUE}, launch_is_file : {TRUE}, root : SelRoots]
    /\ cli \in [only : {"all", "day", "night"}, published_only : BOOLEAN,
                unpublished_only : BOOLEAN, sleep_after : {"0"},
                no_autorun : {FALSE}, extra : {<<>>}, launch : {DEFAULT_LAUNCH}]
    /\ pc = "select"
    /\ ntu_dirs = <<>>
    /\ idx = 0
    /\ proc = 0
    /\ rc = -1
    /\ pending = "None"
    /\ child = <<>>
    /\ hist = <<>>
    /\ attempts = <<>>
    /\ args = <<>>
    /\ cmds = <<>>
    /\ kbd = 0
    /\ exit_code = -1

SelNext == SelectFolders

SelSpec == SelInit /\ [][SelNext]_vars

(***************************************************************************)
(* Properties                                                              *)
(***************************************************************************)
\* the child of folder i was spawned and its exit is not yet collected
Outstanding(i) == child[i].st \in {"running", "exited"}

\* run_roslaunch_for_folder is not executing: control is in main or the
\* program has ended
FunctionLeft == pc \in {"loop", "done", "aborted"}

\* C1: whenever run_roslaunch_for_folder has returned or propagated an
\* exception, every child spawned so far has exited and its exit has been
\* collected.
C1_ChildReapedOnExit ==
    FunctionLeft => \A i \in 1..Len(child) : ~Outstanding(i)

\* C2: for a child on which the driver was blocked in wait() when an
\* interrupt was delivered, the first signal the driver sends to it is
\* SIGINT.
C2_FirstSignalIsSigint ==
    \A i \in 1..Len(child) :
        hist[i].intrBlocked /\ child[i].sigs # <<>> => child[i].sigs[1] = "SIGINT"

\* C3: once an interrupt was delivered while the child of folder i was
\* running, control is in the except or finally clauses of that folder's
\* run or the program has ended by the propagated interrupt; folder i is
\* the last folder for which a child was spawned.
C3_InterruptStopsBatch ==
    \A i \in 1..Len(hist) :
        hist[i].intrRunning =>
            /\ pc \in Handlers \cup Finally \cup {"aborted"}
            /\ idx = i
            /\ Len(attempts) = i

C3_Witness ==
    /\ Len(ntu_dirs) >= 2
    /\ hist[1].intrRunning
    /\ child[1].sigs # <<>>
    /\ pc = "aborted"

\* C4: when the child of a non-last folder i exited non-zero, the program
\* does not end, other than by an operator interrupt, without a child
\* having been spawned for folder i + 1.
C4_FailureDoesNotStopBatch ==
    \A i \in 1..Len(hist) :
        hist[i].outcome = "Failed" /\ i < Len(ntu_dirs) /\ kbd = 0 /\ pc \in Terminal
            => Len(attempts) > i

\* C5: once start-up validation has passed, the program ends with folders
\* left unattempted only if an operator interrupt was delivered.
C5_OnlyInterruptEndsEarly ==
    pc \in Terminal /\ Len(attempts) < Len(ntu_dirs) => kbd > 0

\* C6: the folders for which Popen was called are, in call order, an
\* initial part of the selected folders, and all of them when the program
\* ends without an interrupt having been delivered.
C6_OneAttemptPerFolderInOrder ==
    /\ Len(attempts) <= Len(ntu_dirs)
    /\ \A k \in 1..Len(attempts) : attempts[k] = ntu_dirs[k]
    /\ pc \in {"done", "aborted"} /\ kbd = 0 => attempts = ntu_dirs

\* C7: at most one child is outstanding, and every folder before the one
\* spawned last has no outstanding child.
C7_AtMostOneOutstanding ==
    /\ Cardinality({i \in 1..Len(child) : Outstanding(i)}) <= 1
    /\ \A i \in 1..Len(child) : i < Len(attempts) => ~Outstanding(i)

C7_Witness ==
    /\ Len(attempts) = 2
    /\ child[1].st = "reaped"
    /\ child[2].st = "running"

\* C8: an interrupt delivered while a child is running leads to the driver
\* having left run_roslaunch_for_folder by the propagated interrupt.
C8_DriverLeaves ==
    (\E i \in 1..Len(hist) : hist[i].intrRunning) ~> (pc = "aborted")

\* the child ignored SIGINT for the whole grace period and was killed
C8_Witness ==
    /\ pc = "aborted"
    /\ \E i \in 1..Len(child) :
          /\ hist[i].intrRunning
          /\ child[i].sigs = <<"SIGINT", "SIGKILL">>

\* C9: when a child is spawned for a folder, the run of the folder before
\* it went through the post-run pause, sleeping whenever the configured
\* duration is positive.
C9_PauseBeforeNextSpawn ==
    \A k \in 2..Len(attempts) :
        /\ hist[k - 1].passed
        /\ is_positive(cli.sleep_after) => hist[k - 1].slept

C9_Witness ==
    /\ Len(attempts) = 3
    /\ is_positive(cli.sleep_after)
    /\ hist[1].outcome = "Succeeded" /\ hist[1].slept
    /\ hist[2].outcome = "Failed" /\ hist[2].slept

\* C10: sys.exit is called with 2 when the root is not a directory, else
\* with 3 when the launch file is not a regular file, else with 4 when no
\* folder was selected, and in no other case; no child was spawned then,
\* and the loop is only reached when all three checks pass.
C10_StartupExitCodes ==
    /\ pc = "exit" =>
          /\ attempts = <<>>
          /\ \A i \in 1..Len(child) : child[i].st = "none"
          /\ exit_code = IF ~fsys.root_is_dir THEN 2
                         ELSE IF ~fsys.launch_is_file THEN 3
                         ELSE 4
          /\ exit_code = 4 => ntu_dirs = <<>>
    /\ pc \notin {"validate_root", "validate_launch", "select", "exit", "aborted"} =>
          fsys.root_is_dir /\ fsys.launch_is_file /\ ntu_dirs # <<>>
    /\ attempts # <<>> => fsys.root_is_dir /\ fsys.launch_is_file

\* neither the root nor the launch file exists: reported as 2
C10_Witness ==
    /\ pc = "exit"
    /\ exit_code = 2
    /\ ~fsys.root_is_dir
    /\ ~fsys.launch_is_file

\* C11: when start-up validation has passed and no operator interrupt was
\* delivered, the program ends with exit status 0.
C11_ExitZeroWithoutInterrupt ==
    pc \in Terminal /\ ntu_dirs # <<>> /\ kbd = 0 => exit_code = 0

(***************************************************************************)
(* Properties of the folder selector, under SelSpec                        *)
(***************************************************************************)
\* find_dirs has returned
Selected == pc \in {"loop", "exit"}

IncP == include_published(cli.published_only, cli.unpublished_only)
IncU == include_unpublished(cli.published_only, cli.unpublished_only)

\* the elements of dirs at the positions of P, in the order of dirs
At(dirs, P) ==
    LET F[n \in 0..Len(dirs)] ==
            IF n = 0 THEN <<>>
            ELSE IF n \in P THEN Append(F[n - 1], dirs[n]) ELSE F[n - 1]
    IN F[Len(dirs)]

\* C12: every returned path is a directory, no two returned paths resolve
\* to the same path, and the returned sequence is the globbed sequence
\* restricted to the first occurrence of each resolved directory.
C12_DirsOnlyNoDuplicates ==
    Selected =>
        LET dirs == Collect(fsys.root, cli.only, IncP, IncU)
        IN /\ \A k \in 1..Len(ntu_dirs) : ntu_dirs[k].dir
           /\ \A j, k \in 1..Len(ntu_dirs) :
                 j < k => ntu_dirs[j].rp # ntu_dirs[k].rp
           /\ ntu_dirs = At(dirs, {p \in 1..Len(dirs) :
                                     /\ dirs[p].dir
                                     /\ \A q \in 1..(p - 1) : dirs[q].rp # dirs[p].rp})

\* a file was dropped, and a directory reached again from a later group
C12_Witness ==
    /\ Selected
    /\ \E e \in fsys.root.entries : ~e.dir /\ ~e.up
    /\ Len(ntu_dirs) = 1
    /\ ~ntu_dirs[1].up
    /\ \E e \in fsys.root.entries : e.up /\ e.dir /\ e.rp = ntu_dirs[1].rp
    /\ cli.only = "all" /\ IncP /\ IncU

\* C13 as stated: with --published-only on the command line no selected
\* folder lies under unpublished_sequences, and with --unpublished-only
\* every selected folder does.
C13_FlagPresent ==
    Selected =>
        /\ cli.published_only => \A k \in 1..Len(ntu_dirs) : ~ntu_dirs[k].up
        /\ cli.unpublished_only => \A k \in 1..Len(ntu_dirs) : ntu_dirs[k].up

\* C13 amended: with --published-only and without --unpublished-only no
\* selected folder lies under unpublished_sequences; with
\* --unpublished-only and without --published-only every selected folder
\* does.
C13_FlagAlone ==
    Selected =>
        /\ cli.published_only /\ ~cli.unpublished_only
              => \A k \in 1..Len(ntu_dirs) : ~ntu_dirs[k].up
        /\ cli.unpublished_only /\ ~cli.published_only
              => \A k \in 1..Len(ntu_dirs) : ntu_dirs[k].up

\* --published-only alone leaves out an unpublished directory
C13_Witness ==
    /\ Selected
    /\ cli.published_only /\ ~cli.unpublished_only
    /\ cli.only = "all"
    /\ ntu_dirs # <<>>
    /\ \E e \in fsys.root.entries :
          e.up /\ e.dir /\ \A k \in 1..Len(ntu_dirs) : ntu_dirs[k].rp # e.rp

\* C14: the selection is that of find_dirs with both sources unless exactly
\* one of the two flags is given, and with that flag's source only
\* otherwise.
C14_InclusionTable ==
    Selected =>
        ntu_dirs = find_dirs(fsys.root, cli.only,
                             cli.published_only \/ ~cli.unpublished_only,
                             cli.unpublished_only \/ ~cli.published_only)

\* both flags: a published and an unpublished folder are selected
C14_Witness ==
    /\ Selected
    /\ cli.published_only /\ cli.unpublished_only
    /\ \E j, k \in 1..Len(ntu_dirs) : ~ntu_dirs[j].up /\ ntu_dirs[k].up

\* position of a path's glob group: day-published, night-published,
\* day-unpublished, night-unpublished
GroupRank(e) == (IF e.up THEN 2 ELSE 0) + (IF e.kind = "night" THEN 1 ELSE 0)

\* the directories the filters ask for
Wanted ==
    {e \in fsys.root.entries :
        /\ e.dir
        /\ cli.only \in {"all", e.kind}
        /\ IF e.up THEN IncU ELSE IncP}

\* C15: the selected folders are directories the filters ask for, every
\* such directory is selected (under one of its paths), and they come in
\* group order, lexicographically by name within a group.
C15_GroupOrder ==
    Selected =>
        /\ \A k \in 1..Len(ntu_dirs) : ntu_dirs[k] \in Wanted
        /\ \A e \in Wanted : \E k \in 1..Len(ntu_dirs) : ntu_dirs[k].rp = e.rp
        /\ \A j, k \in 1..Len(ntu_dirs) :
              j < k =>
                 \/ GroupRank(ntu_dirs[j]) < GroupRank(ntu_dirs[k])
                 \/ /\ GroupRank(ntu_dirs[j]) = GroupRank(ntu_dirs[k])
                    /\ LexLess(ntu_dirs[j].suffix, ntu_dirs[k].suffix)

\* neither flag, "all": ntu_day_10 before ntu_day_2, then a later group
C15_Witness ==
    /\ Selected
    /\ ~cli.published_only /\ ~cli.unpublished_only /\ cli.only = "all"
    /\ Len(ntu_dirs) = 3
    /\ ntu_dirs[1].suffix = <<1, 0>> /\ ntu_dirs[2].suffix = <<2>>
    /\ GroupRank(ntu_dirs[1]) = GroupRank(ntu_dirs[2])
    /\ GroupRank(ntu_dirs[3]) > GroupRank(ntu_dirs[2])

\* C16: with --only day no selected folder is named ntu_night_*, and with
\* --only night none is named ntu_day_*.
C16_DayNightFilter ==
    Selected =>
        /\ cli.only = "day" => \A k \in 1..Len(ntu_dirs) : ntu_dirs[k].kind # "night"
        /\ cli.only = "night" => \A k \in 1..Len(ntu_dirs) : ntu_dirs[k].kind # "day"

\* --only day leaves out a night directory
C16_Witness ==
    /\ Selected
    /\ cli.only = "day"
    /\ ntu_dirs # <<>>
    /\ \E e \in fsys.root.entries : e.kind = "night" /\ e.dir /\ (e.up => IncU)

(***************************************************************************)
(* Properties of the spawned command                                       *)
(***************************************************************************)
\* C17: every command handed to Popen is, for the folder it was started
\* for: the tool, the launch file, bag_file:=<folder>/*.bag with the
\* wildcard as it is, autorun:=false when --no_autorun was given and
\* autorun:=true otherwise, then the operator's extra arguments as given
\* and in their order, the same for every folder.
C17_CommandLine ==
    /\ Len(cmds) = Len(attempts)
    /\ \A k \in 1..Len(cmds) :
          LET c == cmds[k]
          IN /\ Len(c) = 4 + Len(cli.extra)
             /\ c[1] = Tok("roslaunch")
             /\ c[2] = Tok(cli.launch)
             /\ c[3].pre = "bag_file:="
             /\ c[3].folder = <<attempts[k]>>
             /\ c[3].post = "/*.bag"
             /\ c[4] = (IF cli.no_autorun THEN Tok("autorun:=false")
                                           ELSE Tok("autorun:=true"))
             /\ \A j \in 1..Len(cli.extra) : c[4 + j] = cli.extra[j]

\* two folders were started with --no_autorun and extra arguments
C17_Witness ==
    /\ Len(cmds) = 2
    /\ cli.no_autorun
    /\ cli.extra # <<>>
    /\ cmds[1][3] # cmds[2][3]

(***************************************************************************)
(* Properties of the signals sent to the children                          *)
(***************************************************************************)
Polite == {"SIGINT", "SIGTERM"}

\* the positions at which the driver sends a signal (lines 102, 106, 114, 118)
Sending == {"kbd_sigint", "kbd_kill", "fin_term", "fin_kill"}

\* the step sends sig to child i
Sends(i, sig) ==
    /\ Len(child'[i].sigs) = Len(child[i].sigs) + 1
    /\ child'[i].sigs[Len(child'[i].sigs)] = sig

\* C18: a step that sends SIGKILL to a child is the kill of line 106 or of
\* line 118, reached only from the timeout of the bounded wait before it;
\* the child is the one of this folder, it has not exited, and the last
\* signal it was sent is the SIGINT or SIGTERM that preceded that wait.
C18_KillOnlyAfterPolite ==
    [][\A i \in 1..Len(child) :
          Sends(i, "SIGKILL") =>
             /\ pc \in {"kbd_kill", "fin_kill"}
             /\ i = proc
             /\ child[i].st = "running"
             /\ child[i].sigs # <<>>
             /\ child[i].sigs[Len(child[i].sigs)] \in Polite
             /\ pc = "kbd_kill" => child[i].sigs[Len(child[i].sigs)] = "SIGINT"
             /\ pc = "fin_kill" => child[i].sigs[Len(child[i].sigs)] = "SIGTERM"]_vars

\* a child was terminated, did not exit in time, and was killed
C18_Witness ==
    \E i \in 1..Len(child) : child[i].sigs = <<"SIGTERM", "SIGKILL">>

\* the operator has interrupted, and never while a child was running
QuietInterrupt ==
    /\ kbd > 0
    /\ \A i \in 1..Len(hist) : ~hist[i].intrRunning

\* C19: once the operator has interrupted while no child is running,
\* control is on its way out (in the except and finally clauses, or the
\* process has ended with the interrupt), and from then on no step sends a
\* signal, completes a pause or calls Popen.
C19_QuietInterruptStopsBatch ==
    [][/\ QuietInterrupt' => pc' \in Handlers \cup Finally \cup {"aborted"}
       /\ QuietInterrupt =>
             /\ attempts' = attempts
             /\ cmds' = cmds
             /\ \A i \in 1..Len(child) : child'[i].sigs = child[i].sigs
             /\ \A i \in 1..Len(hist) : hist'[i].passed = hist[i].passed]_vars

\* interrupted after a folder's child had exited and before its pause was
\* over, with folders left: nothing more was started
C19_Witness ==
    /\ QuietInterrupt
    /\ pc = "aborted"
    /\ exit_code = -1
    /\ idx >= 1 /\ idx < Len(ntu_dirs)
    /\ hist[idx].outcome = "Succeeded"
    /\ ~hist[idx].passed
    /\ Len(attempts) = idx
    /\ \A i \in 1..Len(child) : child[i].sigs = <<>>

\* C20: at every position where the driver sends a signal, the child it
\* sends it to is one whose exit it has not collected; and a child whose
\* exit the wait of line 95 returned, with code zero or not, has been sent
\* no signal.
C20_NoSignalAfterReap ==
    /\ pc \in Sending => proc # 0 /\ child[proc].st # "reaped"
    /\ \A i \in 1..Len(child) :
          hist[i].outcome \in {"Succeeded", "Failed"} =>
             child[i].st = "reaped" /\ child[i].sigs = <<>>

\* the handler sent SIGINT and collected the exit; the cleanup block then
\* sent nothing more
C20_Witness ==
    /\ pc = "aborted"
    /\ proc # 0
    /\ child[proc].st = "reaped"
    /\ child[proc].sigs = <<"SIGINT">>
    /\ \E i \in 1..Len(child) : i # proc /\ hist[i].outcome = "Failed"

=============================================================================
